---- MODULE Spec2Model ----
(***************************************************************************)
(* thoughtvault: the indexing pipeline (index.py over lib/db.py,           *)
(* lib/chunker.py, lib/embeddings.py, lib/faiss_index.py) and the          *)
(* retrieval pipeline (search.py), as a state machine.                     *)
(*                                                                         *)
(* Units.  The clock (time.time()) counts whole seconds.  File mtimes      *)
(* count hundredths of a second, so that the 0.01 s tolerance of           *)
(* file_needs_reindex is 1.  Scores count thousandths.                     *)
(***************************************************************************)
EXTENDS Integers, Sequences, FiniteSets, TLC

(***************************************************************************)
(* Bounds of the model.                                                    *)
(***************************************************************************)
MaxRuns == 2     \* index_directory invocations in one behaviour
MaxId == 8       \* no index_directory starts once the ids have passed this
MaxSearches == 3 \* search invocations in one behaviour
MaxNow == 302    \* the clock stops here
MaxCandidates == 4 \* the longest candidate list handed to mmr_rerank alone

(***************************************************************************)
(* Program constants.                                                      *)
(***************************************************************************)
EMBEDDING_DIM == 768
MTIME_TOL == 1   \* 0.01 s, in hundredths of a second
_CACHE_MAX == 128
_CACHE_TTL == 300

(***************************************************************************)
(* Strings.  TLA+ strings are atoms, so every path and directory of the    *)
(* model has its characters spelled out; the path helpers work on the      *)
(* characters as pathlib and the `in` operator do.                         *)
(***************************************************************************)
FileA == "r/content/a.md"
FileT == "r/content/toolkit-threads/a.md"
Paths == {FileA, FileT}

DirR == "r"
DirC == "r/content"
DirT == "r/content/toolkit-threads"
Dirs == {DirR, DirC, DirT}

ContentChars == <<"c","o","n","t","e","n","t">>
ThreadsChars == <<"t","o","o","l","k","i","t","-","t","h","r","e","a","d","s">>
ArticlesChars == <<"t","o","o","l","k","i","t","-","a","r","t","i","c","l","e","s">>
NameChars == <<"a",".","m","d">>

Chars(s) ==
  CASE s = DirR -> <<"r">>
    [] s = DirC -> <<"r","/">> \o ContentChars
    [] s = DirT -> <<"r","/">> \o ContentChars \o <<"/">> \o ThreadsChars
    [] s = FileA -> <<"r","/">> \o ContentChars \o <<"/">> \o NameChars
    [] s = FileT -> <<"r","/">> \o ContentChars \o <<"/">> \o ThreadsChars
                      \o <<"/">> \o NameChars

\* The order in which a directory walk yields the files of the model.
PathRank(p) == IF p = FileA THEN 1 ELSE 2

SKIP_DIRS ==
  << <<"d","i","g","e","s","t","s">>,
     <<"d","r","a","f","t","s">>,
     <<"h","o","m","e","p","a","g","e","-","b","a","c","k","u","p">>,
     ContentChars \o <<"/">> \o ThreadsChars,
     ContentChars \o <<"/">> \o ArticlesChars >>

StartsWith(s, pre) ==
  /\ Len(pre) <= Len(s)
  /\ SubSeq(s, 1, Len(pre)) = pre

\* Python's `needle in hay` on strings.
IsSubstring(needle, hay) ==
  \E i \in 1..(Len(hay) - Len(needle) + 1) :
    SubSeq(hay, i, i + Len(needle) - 1) = needle

\* Path(...).parts of a relative path: its "/"-separated segments.
RECURSIVE Parts(_)
Parts(s) ==
  IF s = <<>> THEN <<>>
  ELSE LET cut == { i \in 1..Len(s) : s[i] = "/" }
       IN IF cut = {} THEN <<s>>
          ELSE LET c == CHOOSE i \in cut : \A j \in cut : i <= j
               IN <<SubSeq(s, 1, c - 1)>> \o Parts(SubSeq(s, c + 1, Len(s)))

\* Whether the file lies below the directory (directory.rglob finds it).
IsUnder(file, dir) == StartsWith(Chars(file), Chars(dir) \o <<"/">>)

\* file_path.relative_to(directory), for a file below the directory.
relative_to(file, dir) ==
  SubSeq(Chars(file), Len(Chars(dir)) + 2, Len(Chars(file)))

\* Path.stem with '-' and '_' replaced by spaces (extract_context).
Stem(file) ==
  LET parts == Parts(Chars(file))
      name == parts[Len(parts)]
      dots == { i \in 1..Len(name) : name[i] = "." }
      last == IF dots = {} THEN Len(name) + 1
              ELSE CHOOSE i \in dots : \A j \in dots : j <= i
      stem == IF last <= 1 THEN name ELSE SubSeq(name, 1, last - 1)
  IN [ i \in 1..Len(stem) |->
         IF stem[i] \in {"-", "_"} THEN " " ELSE stem[i] ]

should_skip(rel_path) ==
  LET parts == Parts(rel_path)
  IN \/ \E i \in 1..Len(parts) : StartsWith(parts[i], <<".">>)
     \/ \E k \in 1..Len(SKIP_DIRS) : IsSubstring(SKIP_DIRS[k], rel_path)

(***************************************************************************)
(* Values.                                                                 *)
(***************************************************************************)
\* Option values: None is the empty sequence, Some(v) the one-element one.
None == <<>>
Some(v) == <<v>>

\* What chunk_text emits for a file, the file's fragments in order: FileA is
\* empty or holds a repeated fragment, FileT holds one fragment, FileA's first.
BodiesOf(p) == IF p = FileA THEN { <<>>, <<"A", "A", "B">> } ELSE { <<"A">> }

\* Modification times: for FileA two within the 0.01 s tolerance and one
\* beyond it.
MTimesOf(p) ==
  IF p = FileA THEN { 100, 100 + MTIME_TOL, 100 + MTIME_TOL + 2 } ELSE { 100 }

File(body, mtime) ==
  [exists |-> TRUE, readable |-> TRUE, mtime |-> mtime, body |-> body]

\* The lengths of the vectors the embedding service may answer with: the
\* right one, and for the "B" fragments also a wrong one.
DimsOf(text) ==
  IF text.text = "B" THEN { EMBEDDING_DIM, EMBEDDING_DIM - 1 } ELSE { EMBEDDING_DIM }

Absent == [exists |-> FALSE, readable |-> FALSE, mtime |-> 0, body |-> <<>>]

(***************************************************************************)
(* lib/db.py                                                               *)
(***************************************************************************)
\* struct.pack(f'{len(embedding)}f', *embedding): four bytes an element.
_pack_embedding(embedding) ==
  [txt |-> embedding.txt, bytes |-> 4 * embedding.dim]

\* n = len(blob) // 4 floats.
_unpack_embedding(blob) ==
  [txt |-> blob.txt, dim |-> blob.bytes \div 4]

\* hashlib.md5(content.encode()).hexdigest(): equal exactly for equal content.
md5(content) == [md5 |-> content]

\* The insert into a table whose ids are plain rowids: one above the highest
\* id the table holds.
store_chunk_rowid(db, id, content, source_path, chunk_index, embedding, content_hash, file_mtime) ==
  LET kept == { r \in db : ~(r.source_path = source_path /\ r.chunk_index = chunk_index) }
      rowid == IF kept = {} THEN 1
               ELSE 1 + CHOOSE n \in { r.id : r \in kept } :
                          \A r \in kept : r.id <= n
  IN kept \cup { [id |-> rowid, content |-> content, source_path |-> source_path,
                  chunk_index |-> chunk_index,
                  embedding |-> _pack_embedding(embedding),
                  content_hash |-> content_hash, file_mtime |-> file_mtime] }

\* INSERT OR REPLACE: a row with the same (source_path, chunk_index) is
\* removed, and the new row takes the next AUTOINCREMENT id.
store_chunk(db, id, content, source_path, chunk_index, embedding, content_hash, file_mtime) ==
  { r \in db : ~(r.source_path = source_path /\ r.chunk_index = chunk_index) }
    \cup { [id |-> id, content |-> content, source_path |-> source_path,
            chunk_index |-> chunk_index,
            embedding |-> _pack_embedding(embedding),
            content_hash |-> content_hash, file_mtime |-> file_mtime] }

\* A delete that removes nothing.
delete_source_nothing(db, source_path) == db

delete_source(db, source_path) ==
  { r \in db : r.source_path # source_path }

\* SELECT file_mtime ... LIMIT 1: the mtime of whichever row the query
\* yields, or None; the set of the answers the query may give.
get_file_mtime(db, source_path) ==
  LET rows == { r \in db : r.source_path = source_path }
  IN IF rows = {} THEN { None } ELSE { Some(r.file_mtime) : r \in rows }

get_indexed_files(db) == { r.source_path : r \in db }

\* The rows of the table in rowid order.
RECURSIVE RowsById(_)
RowsById(db) ==
  IF db = {} THEN <<>>
  ELSE LET r == CHOOSE x \in db : \A y \in db : x.id <= y.id
       IN <<r>> \o RowsById(db \ {r})

get_embeddings_only(db) ==
  LET rows == RowsById(db)
  IN [ i \in 1..Len(rows) |->
         <<rows[i].id, rows[i].source_path, rows[i].chunk_index,
           _unpack_embedding(rows[i].embedding)>> ]

\* Statistics that count a row too many.
get_stats_one_more(db) ==
  [total_chunks |-> Cardinality(db) + 1,
   total_files |-> Cardinality(get_indexed_files(db))]

get_stats(db) ==
  [total_chunks |-> Cardinality(db),
   total_files |-> Cardinality(get_indexed_files(db))]

(***************************************************************************)
(* lib/chunker.py                                                          *)
(***************************************************************************)
\* "[<stem>]: " followed by the fragment.
extract_context(file) == Stem(file)

\* (context + chunk, i, str(path)) for the fragments of a readable file; an
\* unreadable file gives [].
chunk_file(files, path) ==
  IF ~files[path].readable THEN <<>>
  ELSE [ i \in 1..Len(files[path].body) |->
           << [ctx |-> extract_context(path), text |-> files[path].body[i]],
              i - 1, path >> ]

(***************************************************************************)
(* lib/embeddings.py                                                       *)
(***************************************************************************)
\* embed(text) as embed_batch sees it: None when the call raised, else the
\* vector the service answered with.
EmbedAnswers(text) ==
  { None } \cup { Some([txt |-> text, dim |-> d]) : d \in DimsOf(text) }

\* embed_batch(texts): slot by slot, in order.
embed_batch(texts) ==
  { e \in [ 1..Len(texts) -> UNION { EmbedAnswers(texts[i]) : i \in 1..Len(texts) } ] :
      \A i \in 1..Len(texts) : e[i] \in EmbedAnswers(texts[i]) }

(***************************************************************************)
(* lib/faiss_index.py                                                      *)
(***************************************************************************)
\* faiss.normalize_L2: the vector scaled to unit length.
normalize_L2(v) == [unit |-> v]

\* np.array(..., dtype=np.float32) raises on rows of different lengths.
Ragged(embeddings_data) ==
  \E i, j \in 1..Len(embeddings_data) :
    embeddings_data[i][4].dim # embeddings_data[j][4].dim

BuildVectors(embeddings_data) ==
  [ i \in 1..Len(embeddings_data) |-> normalize_L2(embeddings_data[i][4]) ]

BuildMetadata(embeddings_data) ==
  [ i \in 1..Len(embeddings_data) |->
      <<embeddings_data[i][1], embeddings_data[i][2], embeddings_data[i][3]>> ]

NoSnapshotFile == [exists |-> FALSE, rows |-> <<>>]

(***************************************************************************)
(* index.py                                                                *)
(***************************************************************************)
\* directory.rglob("*.md"), in the directory walk's order.
RECURSIVE InWalkOrder(_)
InWalkOrder(S) ==
  IF S = {} THEN <<>>
  ELSE LET p == CHOOSE x \in S : \A y \in S : PathRank(x) <= PathRank(y)
       IN <<p>> \o InWalkOrder(S \ {p})

rglob(files, directory) ==
  InWalkOrder({ p \in Paths : files[p].exists /\ IsUnder(p, directory) })

RECURSIVE FilterSkipped(_, _, _)
FilterSkipped(s, files, directory) ==
  IF s = <<>> THEN <<>>
  ELSE (IF should_skip(relative_to(Head(s), directory)) THEN <<>> ELSE <<Head(s)>>)
         \o FilterSkipped(Tail(s), files, directory)

\* index.py lines 46-58: the files enumerated and not skipped.
valid_files(files, directory) == FilterSkipped(rglob(files, directory), files, directory)

Range(s) == { s[i] : i \in 1..Len(s) }

\* A slip: the indexed paths are compared with the files enumerated, skipped
\* ones included.
orphaned_before_filter(db, files, directory) ==
  get_indexed_files(db) \ Range(rglob(files, directory))

\* index.py lines 63-65.
orphaned(db, files, directory) ==
  get_indexed_files(db) \ Range(valid_files(files, directory))

\* A slip: a difference of exactly 0.01 s counts as a change.
file_needs_reindex_inclusive(current_mtime, stored_mtime) ==
  IF stored_mtime = None THEN TRUE
  ELSE LET d == current_mtime - stored_mtime[1]
       IN (IF d < 0 THEN -d ELSE d) >= MTIME_TOL

\* A slip: the comparison is turned around.
file_needs_reindex_flipped(current_mtime, stored_mtime) ==
  IF stored_mtime = None THEN TRUE
  ELSE LET d == current_mtime - stored_mtime[1]
       IN (IF d < 0 THEN -d ELSE d) < MTIME_TOL

\* file_needs_reindex, given the answer of get_file_mtime.
file_needs_reindex(current_mtime, stored_mtime) ==
  IF stored_mtime = None THEN TRUE
  ELSE LET d == current_mtime - stored_mtime[1]
       IN (IF d < 0 THEN -d ELSE d) > MTIME_TOL

\* A slip: every chunk joins the pending list, seen or not.
Dedup_keep_all(file_chunks, seen_hashes, mtime) ==
  [ j \in 1..Len(file_chunks) |->
      [content |-> file_chunks[j][1], source |-> file_chunks[j][3],
       idx |-> file_chunks[j][2], mtime |-> mtime,
       content_hash |-> md5(file_chunks[j][1])] ]

\* index.py lines 93-102: the chunks of one file that join the pending list,
\* the first occurrence of each content hash.
RECURSIVE Dedup(_, _, _)
Dedup(file_chunks, seen_hashes, mtime) ==
  IF file_chunks = <<>> THEN <<>>
  ELSE LET c == Head(file_chunks)
           content_hash == md5(c[1])
       IN IF content_hash \in seen_hashes
          THEN Dedup(Tail(file_chunks), seen_hashes, mtime)
          ELSE << [content |-> c[1], source |-> c[3], idx |-> c[2],
                   mtime |-> mtime, content_hash |-> content_hash] >>
               \o Dedup(Tail(file_chunks), seen_hashes \cup {content_hash}, mtime)

(***************************************************************************)
(* The state.                                                              *)
(***************************************************************************)
VARIABLES
  fs,         \* the files on disk: path -> [exists, readable, mtime, body]
  chunks,     \* the chunks table: a set of rows
  nextId,     \* the next AUTOINCREMENT id of the chunks table
  indexFile,  \* faiss.index: [exists, rows], rows the normalised vectors
  metaFile,   \* faiss_metadata.json: [exists, rows], rows <<id, source, idx>>
  pc,         \* where the running index_directory stands ("idle": none runs)
  run,        \* the locals of the running index_directory
  last,       \* how the last index_directory ended, and what changed since
  runs,       \* index_directory invocations so far
  now,        \* time.time(), in seconds
  cache,      \* search.py's _cache, least recently used first
  searchLog,  \* the search_log table, oldest row first
  calls,      \* the search calls that have returned, oldest first
  searches,   \* search invocations so far
  candidates, \* a candidate list handed to mmr_rerank
  top,        \* the top_k handed with it
  reranked    \* what mmr_rerank returned for them (None: not called yet)

indexVars == <<fs, chunks, nextId, indexFile, metaFile, pc, run, last, runs>>
searchVars == <<now, cache, searchLog, calls, searches>>
rerankVars == <<candidates, top, reranked>>
vars == <<indexVars, searchVars, rerankVars>>

(***************************************************************************)
(* Initial state: an empty store, no snapshot, and a directory tree that   *)
(* holds some of the files already.                                        *)
(***************************************************************************)
NoRun == [outcome |-> "none", directory |-> DirR, fsChanged |-> FALSE]

IdleRun ==
  [directory |-> DirR, force |-> FALSE, valid_files |-> <<>>, orphaned |-> {},
   i |-> 1, pending_chunks |-> <<>>, embeddings |-> <<>>, k |-> 1,
   outcome |-> "none", startChunks |-> {}, reindexed |-> {}, writes |-> 0,
   prev |-> NoRun]

InitialFiles(p) ==
  { Absent, File(CHOOSE b \in BodiesOf(p) : b # <<>>, 100) }

Init ==
  /\ fs \in { f \in [Paths -> UNION { InitialFiles(p) : p \in Paths }] :
                \A p \in Paths : f[p] \in InitialFiles(p) }
  /\ chunks = {}
  /\ nextId = 1
  /\ indexFile = NoSnapshotFile
  /\ metaFile = NoSnapshotFile
  /\ pc = "idle"
  /\ run = IdleRun
  /\ last = NoRun
  /\ runs = 0
  /\ now = 2
  /\ cache = <<>>
  /\ searchLog = <<>>
  /\ calls = <<>>
  /\ searches = 0
  /\ candidates = <<>>
  /\ top = 1
  /\ reranked = None

(***************************************************************************)
(* The filesystem, changed while no index_directory runs.                  *)
(***************************************************************************)
\* A file is written (created, rewritten or touched) with some mtime; an
\* unreadable file is one whose read_text raises.
WriteFile(p, readable, body, mtime) ==
  /\ pc = "idle"
  /\ runs < MaxRuns
  /\ readable \/ (p = FileA /\ body = <<>>)
  /\ fs' = [fs EXCEPT ![p] = [exists |-> TRUE, readable |-> readable,
                              mtime |-> mtime, body |-> body]]
  /\ fs'[p] # fs[p]
  /\ last' = [last EXCEPT !.fsChanged = TRUE]
  /\ UNCHANGED <<chunks, nextId, indexFile, metaFile, pc, run, runs, searchVars, rerankVars>>

DeleteFile(p) ==
  /\ pc = "idle"
  /\ runs < MaxRuns
  /\ fs[p].exists
  /\ fs' = [fs EXCEPT ![p] = Absent]
  /\ last' = [last EXCEPT !.fsChanged = TRUE]
  /\ UNCHANGED <<chunks, nextId, indexFile, metaFile, pc, run, runs, searchVars, rerankVars>>

(***************************************************************************)
(* index_directory, one step for every commit to the store and every file  *)
(* written, so that an interruption can fall between any two of them.      *)
(* A run that has ended stands at "ended" with its locals, and Return      *)
(* gives the control back.                                                 *)
(***************************************************************************)
\* Where the run stands once the orphans left to purge are `left`.
AfterPurge(left, valid) ==
  IF left # {} THEN "purge" ELSE IF valid # <<>> THEN "scan" ELSE "pending"

\* Lines 41-65: the scan of the directory and the orphans to purge.
StartRun(directory, force) ==
  /\ pc = "idle"
  /\ runs < MaxRuns
  /\ nextId <= MaxId
  /\ LET valid == valid_files(fs, directory)
         orph == orphaned(chunks, fs, directory)
     IN /\ run' = [IdleRun EXCEPT !.directory = directory, !.force = force,
                                  !.valid_files = valid, !.orphaned = orph,
                                  !.startChunks = chunks, !.prev = last]
        /\ pc' = AfterPurge(orph, valid)
  /\ runs' = runs + 1
  /\ UNCHANGED <<fs, chunks, nextId, indexFile, metaFile, last, searchVars, rerankVars>>

\* Lines 66-69: delete_source for one orphaned path.
PurgeOrphan ==
  /\ pc = "purge"
  /\ \E path \in run.orphaned :
       /\ chunks' = delete_source(chunks, path)
       /\ run' = [run EXCEPT !.orphaned = @ \ {path}, !.writes = @ + 1]
       /\ pc' = AfterPurge(run.orphaned \ {path}, run.valid_files)
  /\ UNCHANGED <<fs, nextId, indexFile, metaFile, last, runs, searchVars, rerankVars>>

\* Lines 78-104, one file of valid_files.
ScanFile ==
  /\ pc = "scan"
  /\ LET file_path == run.valid_files[run.i]
         source_key == file_path
         more == IF run.i < Len(run.valid_files) THEN "scan" ELSE "pending"
     IN \E stored_mtime \in get_file_mtime(chunks, source_key) :
          IF ~run.force /\ ~file_needs_reindex(fs[file_path].mtime, stored_mtime)
          THEN /\ run' = [run EXCEPT !.i = @ + 1]
               /\ pc' = more
               /\ UNCHANGED chunks
          ELSE LET file_chunks == chunk_file(fs, file_path)
                   mtime == fs[file_path].mtime
               IN /\ chunks' = delete_source(chunks, source_key)
                  /\ run' = [run EXCEPT
                       !.i = @ + 1,
                       !.pending_chunks = @ \o Dedup(file_chunks, {}, mtime),
                       !.reindexed = @ \cup {file_path},
                       !.writes = @ + 1]
                  /\ pc' = more
  /\ UNCHANGED <<fs, nextId, indexFile, metaFile, last, runs, searchVars, rerankVars>>

\* The run with nothing pending going on to build_index all the same.
ReturnNoChanges_rebuilds ==
  /\ pc = "pending"
  /\ run.pending_chunks = <<>>
  /\ pc' = "build"
  /\ UNCHANGED <<fs, chunks, nextId, indexFile, metaFile, run, last, runs, searchVars, rerankVars>>

\* Lines 106-110: nothing is pending, the run returns.
ReturnNoChanges ==
  /\ pc = "pending"
  /\ run.pending_chunks = <<>>
  /\ pc' = "ended"
  /\ run' = [run EXCEPT !.outcome = "noop"]
  /\ UNCHANGED <<fs, chunks, nextId, indexFile, metaFile, last, runs, searchVars, rerankVars>>

\* Lines 114-118: embed_batch over the pending texts.
EmbedPending ==
  /\ pc = "pending"
  /\ run.pending_chunks # <<>>
  /\ LET texts == [ j \in 1..Len(run.pending_chunks) |-> run.pending_chunks[j].content ]
     IN \E embeddings \in embed_batch(texts) :
          run' = [run EXCEPT !.embeddings = embeddings]
  /\ pc' = "store"
  /\ UNCHANGED <<fs, chunks, nextId, indexFile, metaFile, last, runs, searchVars, rerankVars>>

\* The store loop with build_index called from inside it.
StoreChunk_build_early ==
  /\ pc = "store"
  /\ LET c == run.pending_chunks[run.k]
         e == run.embeddings[run.k]
     IN IF e = None
        THEN /\ run' = [run EXCEPT !.k = @ + 1]
             /\ UNCHANGED <<chunks, nextId>>
        ELSE /\ chunks' = store_chunk(chunks, nextId, c.content, c.source, c.idx,
                                      e[1], c.content_hash, c.mtime)
             /\ nextId' = nextId + 1
             /\ run' = [run EXCEPT !.k = @ + 1, !.writes = @ + 1]
  /\ pc' = "build"
  /\ UNCHANGED <<fs, indexFile, metaFile, last, runs, searchVars, rerankVars>>

\* Lines 123-130, one pending chunk.
StoreChunk ==
  /\ pc = "store"
  /\ LET c == run.pending_chunks[run.k]
         e == run.embeddings[run.k]
     IN IF e = None
        THEN /\ run' = [run EXCEPT !.k = @ + 1]
             /\ UNCHANGED <<chunks, nextId>>
        ELSE /\ chunks' = store_chunk(chunks, nextId, c.content, c.source, c.idx,
                                      e[1], c.content_hash, c.mtime)
             /\ nextId' = nextId + 1
             /\ run' = [run EXCEPT !.k = @ + 1, !.writes = @ + 1]
  /\ pc' = IF run.k < Len(run.pending_chunks) THEN "store" ELSE "build"
  /\ UNCHANGED <<fs, indexFile, metaFile, last, runs, searchVars, rerankVars>>

\* build_index lines 20-21: nothing to index, nothing is written.
BuildIndexEmpty ==
  /\ pc = "build"
  /\ get_embeddings_only(chunks) = <<>>
  /\ pc' = "ended"
  /\ run' = [run EXCEPT !.outcome = "done"]
  /\ UNCHANGED <<fs, chunks, nextId, indexFile, metaFile, last, runs, searchVars, rerankVars>>

\* build_index line 25: vectors of different lengths make np.array raise,
\* and index_directory ends with the exception.
BuildIndexRaises ==
  /\ pc = "build"
  /\ Ragged(get_embeddings_only(chunks))
  /\ pc' = "ended"
  /\ run' = [run EXCEPT !.outcome = "raised"]
  /\ UNCHANGED <<fs, chunks, nextId, indexFile, metaFile, last, runs, searchVars, rerankVars>>

\* build_index lines 25-37: the vector file is written.
BuildIndexWriteVectors ==
  /\ pc = "build"
  /\ get_embeddings_only(chunks) # <<>>
  /\ ~Ragged(get_embeddings_only(chunks))
  /\ indexFile' = [exists |-> TRUE,
                   rows |-> BuildVectors(get_embeddings_only(chunks))]
  /\ pc' = "metadata"
  /\ UNCHANGED <<fs, chunks, nextId, metaFile, run, last, runs, searchVars, rerankVars>>

\* build_index lines 38-39: the metadata file is written, the run is over.
\* The metadata are those of the rows read at line 139, which the store
\* still holds: nothing writes to it in between.
BuildIndexWriteMetadata ==
  /\ pc = "metadata"
  /\ metaFile' = [exists |-> TRUE,
                  rows |-> BuildMetadata(get_embeddings_only(chunks))]
  /\ pc' = "ended"
  /\ run' = [run EXCEPT !.outcome = "done"]
  /\ UNCHANGED <<fs, chunks, nextId, indexFile, last, runs, searchVars, rerankVars>>

\* The process is killed (or the machine stops) in the middle of the run.
Interrupt ==
  /\ pc \notin {"idle", "ended"}
  /\ pc' = "idle"
  /\ last' = [outcome |-> IF pc = "build" THEN "killed before build_index"
                          ELSE "killed",
              directory |-> run.directory, fsChanged |-> FALSE]
  /\ run' = IdleRun
  /\ UNCHANGED <<fs, chunks, nextId, indexFile, metaFile, runs, searchVars, rerankVars>>

\* index_directory has returned or raised.
Return ==
  /\ pc = "ended"
  /\ pc' = "idle"
  /\ last' = [outcome |-> run.outcome,
              directory |-> run.directory, fsChanged |-> FALSE]
  /\ run' = IdleRun
  /\ UNCHANGED <<fs, chunks, nextId, indexFile, metaFile, runs, searchVars, rerankVars>>

Next ==
  \/ \E p \in Paths, readable \in BOOLEAN :
       \E body \in BodiesOf(p), mtime \in MTimesOf(p) :
         WriteFile(p, readable, body, mtime)
  \/ \E p \in Paths : DeleteFile(p)
  \/ \E directory \in Dirs, force \in BOOLEAN : StartRun(directory, force)
  \/ PurgeOrphan
  \/ ScanFile
  \/ ReturnNoChanges
  \/ EmbedPending
  \/ StoreChunk
  \/ BuildIndexEmpty
  \/ BuildIndexRaises
  \/ BuildIndexWriteVectors
  \/ BuildIndexWriteMetadata
  \/ Interrupt
  \/ Return

Spec == Init /\ [][Next]_vars

(***************************************************************************)
(* search.py                                                               *)
(***************************************************************************)
Queries == { "alpha" }
TopKs == { 1, 2 }

\* The cosine of the query's embedding and a text's: fragment A is the
\* nearer one.  faiss's inner product of normalised vectors is the same.
cosine_similarity(query_embedding, chunk_embedding) ==
  IF chunk_embedding.txt.text = "A" THEN 800 ELSE 795

\* embed(query): the vector, or None when the call raises.
QueryEmbedAnswers(query) ==
  { None, Some([txt |-> query, dim |-> EMBEDDING_DIM]) }

_cache_key(query, top_k) == md5(<<query, ":", top_k>>)

InCache(c, key) == \E i \in 1..Len(c) : c[i].key = key
CacheAt(c, key) == CHOOSE i \in 1..Len(c) : c[i].key = key
Without(c, i) == SubSeq(c, 1, i - 1) \o SubSeq(c, i + 1, Len(c))

\* A lookup that takes an entry of age _CACHE_TTL for a live one.
_cache_get_stale(c, key, t) ==
  IF InCache(c, key) /\ t - c[CacheAt(c, key)].time <= _CACHE_TTL
  THEN [value |-> Some(c[CacheAt(c, key)].results),
        time |-> c[CacheAt(c, key)].time,
        cache |-> Append(Without(c, CacheAt(c, key)), c[CacheAt(c, key)])]
  ELSE [value |-> None, time |-> 0,
        cache |-> IF InCache(c, key) THEN Without(c, CacheAt(c, key)) ELSE c]

\* A lookup that leaves an expired entry where it is.
_cache_get_keeps_expired(c, key, t) ==
  IF InCache(c, key) /\ t - c[CacheAt(c, key)].time < _CACHE_TTL
  THEN [value |-> Some(c[CacheAt(c, key)].results),
        time |-> c[CacheAt(c, key)].time,
        cache |-> Append(Without(c, CacheAt(c, key)), c[CacheAt(c, key)])]
  ELSE [value |-> None, time |-> 0, cache |-> c]

\* A lookup whose hit leaves the entry in its place.
_cache_get_no_touch(c, key, t) ==
  IF InCache(c, key)
  THEN IF t - c[CacheAt(c, key)].time < _CACHE_TTL
       THEN [value |-> Some(c[CacheAt(c, key)].results),
             time |-> c[CacheAt(c, key)].time, cache |-> c]
       ELSE [value |-> None, time |-> 0, cache |-> Without(c, CacheAt(c, key))]
  ELSE [value |-> None, time |-> 0, cache |-> c]

\* A lookup that never finds the key.
_cache_get_miss(c, key, t) == [value |-> None, time |-> 0, cache |-> c]

\* _cache_get: the cached list (or None) and the cache it leaves.
_cache_get(c, key, t) ==
  IF InCache(c, key)
  THEN LET i == CacheAt(c, key)
       IN IF t - c[i].time < _CACHE_TTL
          THEN [value |-> Some(c[i].results), time |-> c[i].time,
                cache |-> Append(Without(c, i), c[i])]
          ELSE [value |-> None, time |-> 0, cache |-> Without(c, i)]
  ELSE [value |-> None, time |-> 0, cache |-> c]

\* An insertion that never makes room.
_cache_set_unbounded(c, key, results, t) ==
  IF InCache(c, key)
  THEN [c EXCEPT ![CacheAt(c, key)] = [key |-> key, results |-> results, time |-> t]]
  ELSE Append(c, [key |-> key, results |-> results, time |-> t])

\* _cache_set: an OrderedDict keeps the place of a key it already holds.
_cache_set(c, key, results, t) ==
  LET entry == [key |-> key, results |-> results, time |-> t]
      c1 == IF InCache(c, key)
            THEN [c EXCEPT ![CacheAt(c, key)] = entry]
            ELSE Append(c, entry)
  IN IF Len(c1) > _CACHE_MAX THEN Tail(c1) ELSE c1

\* The keys _cache_set drops.
Evicted(c, key, results, t) ==
  { c[i].key : i \in 1..Len(c) } \ { e.key : e \in Range(_cache_set(c, key, results, t)) }

\* The pass with the source penalty left out.
RECURSIVE BestIdx_no_penalty(_, _, _, _, _)
BestIdx_no_penalty(selected, remaining, i, best_score, best_idx) ==
  IF i > Len(remaining) THEN best_idx
  ELSE IF 7 * remaining[i].similarity > best_score
       THEN BestIdx_no_penalty(selected, remaining, i + 1,
                               7 * remaining[i].similarity, i)
       ELSE BestIdx_no_penalty(selected, remaining, i + 1, best_score, best_idx)

\* mmr_rerank lines 54-65: one pass over `remaining`; scores times ten, so
\* that lambda 0.7 and 1 - lambda are 7 and 3 and the penalty 0.15 is 150.
RECURSIVE BestIdx(_, _, _, _, _)
BestIdx(selected, remaining, i, best_score, best_idx) ==
  IF i > Len(remaining) THEN best_idx
  ELSE LET candidate == remaining[i]
           source_penalty ==
             IF \E n \in 1..Len(selected) : candidate.source = selected[n].source
             THEN 150 ELSE 0
           mmr_score == 7 * candidate.similarity - 3 * source_penalty
       IN IF mmr_score > best_score
          THEN BestIdx(selected, remaining, i + 1, mmr_score, i)
          ELSE BestIdx(selected, remaining, i + 1, best_score, best_idx)

\* mmr_rerank lines 50-67.
RECURSIVE MmrLoop(_, _, _)
MmrLoop(selected, remaining, top_k) ==
  IF Len(selected) < top_k /\ remaining # <<>>
  THEN LET b == BestIdx(selected, remaining, 1, -10000, 1)
       IN MmrLoop(Append(selected, remaining[b]), Without(remaining, b), top_k)
  ELSE selected

mmr_rerank(results, top_k) ==
  IF Len(results) <= top_k THEN results
  ELSE MmrLoop(<<results[1]>>, Tail(results), top_k)

\* recency_weight: the file's age in days from its mtime (hundredths of a
\* second) and the clock (seconds).
recency_weight(similarity, source_path, files, t) ==
  LET age == t * 100 - files[source_path].mtime
      day == 86400 * 100
      boost == IF ~files[source_path].exists THEN 0
               ELSE IF age < day THEN 30
               ELSE IF age < 7 * day THEN 20
               ELSE IF age < 30 * day THEN 10
               ELSE 0
  IN similarity + boost

\* The positions 1..n by falling score, the earlier first among equals.
RECURSIVE ByScore(_, _)
ByScore(positions, score) ==
  IF positions = {} THEN <<>>
  ELSE LET b == CHOOSE i \in positions :
                  \A j \in positions :
                    score[i] > score[j] \/ (score[i] = score[j] /\ i <= j)
       IN <<b>> \o ByScore(positions \ {b}, score)

Min(a, b) == IF a <= b THEN a ELSE b

\* index_exists of lib/faiss_index.py.
index_exists == indexFile.exists /\ metaFile.exists

\* Whether faiss's index.search raises: the query's length is not the
\* index's.
FaissRaises(query_embedding) ==
  \E i \in 1..Len(indexFile.rows) :
    indexFile.rows[i].unit.dim # query_embedding.dim

\* search of lib/faiss_index.py, lines 57-76, both files being there.
faiss_search(query_embedding, top_k) ==
  LET index == indexFile.rows
      metadata == metaFile.rows
      score == [ i \in 1..Len(index) |->
                   cosine_similarity(query_embedding, index[i].unit) ]
      ranked == ByScore(1..Len(index), score)
      indices == SubSeq(ranked, 1, Min(top_k * 2, Len(index)))
      kept == SelectSeq(indices, LAMBDA idx : idx <= Len(metadata))
  IN [ n \in 1..Len(kept) |->
         << metadata[kept[n]][1], metadata[kept[n]][2], metadata[kept[n]][3],
            score[kept[n]] >> ]

\* search.py lines 121-148.
FaissResults(query_embedding, top_k, db, files, t) ==
  LET faiss_results == faiss_search(query_embedding, top_k)
      results ==
        [ n \in 1..Len(faiss_results) |->
            LET r == faiss_results[n]
                rows == { x \in db : x.id = r[1] }
            IN IF rows # {}
               THEN LET x == CHOOSE x \in rows : TRUE
                    IN [id |-> r[1], content |-> Some(x.content),
                        source |-> x.source_path, chunk_index |-> x.chunk_index,
                        similarity |->
                          recency_weight(r[4], x.source_path, files, t)]
               ELSE [id |-> r[1], content |-> None, source |-> r[2],
                     chunk_index |-> r[3], similarity |-> r[4]] ]
  IN mmr_rerank(results, top_k)

\* search.py lines 162-176.
BruteForceResults(query_embedding, top_k, db, files, t) ==
  LET all_chunks == RowsById(db)
      results ==
        [ n \in 1..Len(all_chunks) |->
            [id |-> all_chunks[n].id, content |-> Some(all_chunks[n].content),
             source |-> all_chunks[n].source_path,
             chunk_index |-> all_chunks[n].chunk_index,
             similarity |->
               recency_weight(
                 cosine_similarity(query_embedding,
                                   _unpack_embedding(all_chunks[n].embedding)),
                 all_chunks[n].source_path, files, t)] ]
      order == ByScore(1..Len(results),
                       [ n \in 1..Len(results) |-> results[n].similarity ])
      sorted == [ n \in 1..Len(results) |-> results[order[n]] ]
  IN mmr_rerank(SubSeq(sorted, 1, Min(top_k * 2, Len(sorted))), top_k)

LogRow(query, results) ==
  [query |-> query,
   top_score |-> IF results # <<>> THEN results[1].similarity ELSE 0,
   num_results |-> Len(results)]

\* A call that returns: what it returned and the cache entry it was.
Returned(query, top_k, results, entryTime, evicted) ==
  [query |-> query, top_k |-> top_k, time |-> now, results |-> results,
   stored |-> get_stats(chunks).total_chunks # 0,
   entryTime |-> entryTime, evicted |-> evicted]

\* search(query, top_k), with the answer of the embedding service.  A content
\* of None stands for the "[content unavailable]" placeholder.
Search(query, top_k, answer) ==
  /\ searches < MaxSearches
  /\ searches' = searches + 1
  /\ LET ckey == _cache_key(query, top_k)
         got == _cache_get(cache, ckey, now)
     IN IF get_stats(chunks).total_chunks = 0
        THEN \* lines 94-98
             /\ calls' = Append(calls, Returned(query, top_k, <<>>, now, {}))
             /\ UNCHANGED <<cache, searchLog>>
        ELSE IF got.value # None
        THEN \* lines 101-108
             /\ cache' = got.cache
             /\ searchLog' = Append(searchLog, LogRow(query, got.value[1]))
             /\ calls' = Append(calls,
                          Returned(query, top_k, got.value[1], got.time, {}))
        ELSE IF answer = None \/ (index_exists /\ FaissRaises(answer[1]))
        THEN \* line 111 or line 118 raises
             /\ cache' = got.cache
             /\ UNCHANGED <<searchLog, calls>>
        ELSE \* lines 113-156 or 158-182
             LET results ==
                   IF index_exists
                   THEN FaissResults(answer[1], top_k, chunks, fs, now)
                   ELSE BruteForceResults(answer[1], top_k, chunks, fs, now)
             IN /\ cache' = _cache_set(got.cache, ckey, results, now)
                /\ searchLog' = Append(searchLog, LogRow(query, results))
                /\ calls' = Append(calls,
                             Returned(query, top_k, results, now,
                                      Evicted(got.cache, ckey, results, now)))
  /\ UNCHANGED <<indexVars, now, rerankVars>>

\* Time passes.
Tick(d) ==
  /\ now + d <= MaxNow
  /\ now' = now + d
  /\ UNCHANGED <<indexVars, cache, searchLog, calls, searches, rerankVars>>

(***************************************************************************)
(* The retrieval pipeline beside the indexer: searches and the clock, and  *)
(* index_directory over DirC and DirT on a tree that loses files.          *)
(***************************************************************************)
NextSearch ==
  \/ \E query \in Queries, top_k \in TopKs :
       \E answer \in QueryEmbedAnswers(query) : Search(query, top_k, answer)
  \/ \E d \in { _CACHE_TTL - 1, _CACHE_TTL } : Tick(d)
  \/ \E p \in Paths : DeleteFile(p)
  \/ \E directory \in { DirC } : StartRun(directory, FALSE)
  \/ PurgeOrphan
  \/ ScanFile
  \/ ReturnNoChanges
  \/ EmbedPending
  \/ StoreChunk
  \/ BuildIndexEmpty
  \/ BuildIndexRaises
  \/ BuildIndexWriteVectors
  \/ BuildIndexWriteMetadata
  \/ Return

SpecSearch == Init /\ [][NextSearch]_vars

(***************************************************************************)
(* What the claims speak of.                                               *)
(***************************************************************************)
\* index_directory has returned normally and control is not yet given back.
Completed == pc = "ended" /\ run.outcome \in {"done", "noop"}

StoreIds == { r.id : r \in chunks }
MetaIds == { metaFile.rows[i][1] : i \in 1..Len(metaFile.rows) }

RowsOf(db, source_path) == { r \in db : r.source_path = source_path }

\* The rows of a file by what they say, whatever their ids.
KeyRows(db, source_path) ==
  { <<r.chunk_index, r.content>> : r \in RowsOf(db, source_path) }

\* The files a run over the directory has to hold in the store: enumerated
\* under it and not skipped.
ValidSet(directory) ==
  { p \in Paths : /\ fs[p].exists
                  /\ IsUnder(p, directory)
                  /\ ~should_skip(relative_to(p, directory)) }

\* The previous index_directory returned normally over the same directory,
\* nothing on disk has changed since, and this one runs with force=false.
SecondRunInSuccession ==
  /\ ~run.force
  /\ run.prev.outcome \in {"done", "noop"}
  /\ run.prev.directory = run.directory
  /\ ~run.prev.fsChanged

\* The pending chunks of a file that the run stores: those embedded.
Embedded(f) ==
  { j \in 1..Len(run.pending_chunks) :
      run.pending_chunks[j].source = f /\ run.embeddings[j] # None }

(***************************************************************************)
(* C1.  After every completed index_directory run every chunk id listed in *)
(* the snapshot metadata has a row with the same id in the chunks table.   *)
(* The code does not rebuild the snapshot when nothing is pending, so a    *)
(* run that only purges a deleted file leaves the file's ids listed.       *)
(***************************************************************************)
C1_SnapshotIdsInStore == Completed => MetaIds \subseteq StoreIds

(***************************************************************************)
(* C2.  A run killed after its last store_chunk commit and before          *)
(* build_index is repaired by a re-run with force=false over the unchanged *)
(* directory: when the re-run completes, the ids of the snapshot metadata  *)
(* are the ids of the chunks table.  The re-run finds every file unchanged *)
(* and returns without rebuilding.                                         *)
(***************************************************************************)
C2_RerunRestoresSnapshot ==
  ( /\ Completed
    /\ ~run.force
    /\ run.prev.outcome = "killed before build_index"
    /\ run.prev.directory = run.directory
    /\ ~run.prev.fsChanged )
  => MetaIds = StoreIds

(***************************************************************************)
(* C3.  Between any two commits of the store loop the rows of every valid  *)
(* file are the complete set it had when the run started or the complete   *)
(* set this run stores for it, never a part of one.  The code commits the  *)
(* delete and every insert of a file separately.                           *)
(***************************************************************************)
C3_FileReplacedAtomically ==
  pc = "store" =>
    \A f \in Range(run.valid_files) :
      \/ KeyRows(chunks, f) = KeyRows(run.startChunks, f)
      \/ KeyRows(chunks, f) =
           { <<run.pending_chunks[j].idx, run.pending_chunks[j].content>> :
               j \in Embedded(f) }

(***************************************************************************)
(* C4.  After every completed index_directory run every source_path of the *)
(* chunks table is a valid file of that run: there under the directory and *)
(* not skipped.                                                            *)
(***************************************************************************)
C4_OnlyValidSources ==
  Completed => \A r \in chunks : r.source_path \in ValidSet(run.directory)

\* A completed run that met rows of a file now skipped and rows of a file
\* outside its directory, and that holds rows at its end.
C4_Witness ==
  /\ Completed
  /\ chunks # {}
  /\ \E r \in run.startChunks :
       /\ fs[r.source_path].exists
       /\ \/ ~IsUnder(r.source_path, run.directory)
          \/ /\ IsUnder(r.source_path, run.directory)
             /\ should_skip(relative_to(r.source_path, run.directory))

(***************************************************************************)
(* C5.  After every completed index_directory run the chunk_index values   *)
(* of every source_path are exactly 0..K-1.  The code stores the chunker's *)
(* index, so a dropped duplicate or a failed embedding leaves a gap.       *)
(***************************************************************************)
C5_ContiguousIndexes ==
  Completed =>
    \A s \in get_indexed_files(chunks) :
      { r.chunk_index : r \in RowsOf(chunks, s) }
        = 0..(Cardinality(RowsOf(chunks, s)) - 1)

(***************************************************************************)
(* C6.  Every embedding of the chunks table has EMBEDDING_DIM elements.    *)
(* The code never looks at the length of a vector.                         *)
(***************************************************************************)
C6_PersistedDimension ==
  \A r \in chunks : _unpack_embedding(r.embedding).dim = EMBEDDING_DIM

(***************************************************************************)
(* C7.  The second of two index_directory runs in succession (force=false, *)
(* nothing changed on disk) executes no delete_source and no store_chunk.  *)
(* As claimed, for any directory contents: violated by an empty file,      *)
(* whose rows the second run deletes again.                                *)
(***************************************************************************)
C7_SecondRunWritesNothing ==
  (Completed /\ SecondRunInSuccession) => run.writes = 0

(***************************************************************************)
(* C7, amended.  The same, when the store holds at least one row of every  *)
(* valid file as the second run starts.                                    *)
(***************************************************************************)
C7_SecondRunWritesNothingIfStored ==
  ( /\ Completed
    /\ SecondRunInSuccession
    /\ \A f \in Range(run.valid_files) : RowsOf(run.startChunks, f) # {} )
  => run.writes = 0

\* A second run in succession over a directory with a stored file.
C7_Witness ==
  /\ Completed
  /\ SecondRunInSuccession
  /\ run.valid_files # <<>>
  /\ \A f \in Range(run.valid_files) : RowsOf(run.startChunks, f) # {}
  /\ chunks = run.startChunks

(***************************************************************************)
(* C8.  In a completed run a valid file is re-indexed if and only if force *)
(* is set, or the store had no row of it, or its mtime differs from the    *)
(* stored one by more than 0.01 s.  A re-indexed file has lost the rows it *)
(* had and its stored mtime is the current one; the rows of every other    *)
(* valid file are as they were.  As claimed: violated by a re-indexed file *)
(* of which nothing is stored, which has no stored mtime.                  *)
(***************************************************************************)
NeedsReindex(f) ==
  \/ run.force
  \/ RowsOf(run.startChunks, f) = {}
  \/ \E r \in RowsOf(run.startChunks, f) :
       \/ fs[f].mtime - r.file_mtime > MTIME_TOL
       \/ r.file_mtime - fs[f].mtime > MTIME_TOL

ReindexDecision(f) ==
  /\ f \in run.reindexed <=> NeedsReindex(f)
  /\ f \in run.reindexed =>
       /\ RowsOf(chunks, f) \cap run.startChunks = {}
       /\ \A j \in 1..Len(chunk_file(fs, f)) :
            \E k \in 1..Len(run.pending_chunks) :
              /\ run.pending_chunks[k].source = f
              /\ run.pending_chunks[k].content = chunk_file(fs, f)[j][1]
  /\ f \notin run.reindexed => RowsOf(chunks, f) = RowsOf(run.startChunks, f)

C8_ReindexIff ==
  Completed =>
    \A f \in Range(run.valid_files) :
      /\ ReindexDecision(f)
      /\ f \in run.reindexed => get_file_mtime(chunks, f) = { Some(fs[f].mtime) }

(***************************************************************************)
(* C8, amended.  The same, with "every row the run stores for the file     *)
(* carries the current mtime" for "its stored mtime is the current one".   *)
(***************************************************************************)
C8_ReindexIffRowsCarryMtime ==
  Completed =>
    \A f \in Range(run.valid_files) :
      /\ ReindexDecision(f)
      /\ f \in run.reindexed =>
           \A r \in RowsOf(chunks, f) : r.file_mtime = fs[f].mtime

\* A run without force that re-indexed a touched file, stored rows for it
\* with the new mtime, and left the rows of another valid file alone.
C8_Witness ==
  /\ Completed
  /\ ~run.force
  /\ \E f, g \in Range(run.valid_files) :
       /\ f \in run.reindexed
       /\ RowsOf(run.startChunks, f) # {}
       /\ RowsOf(chunks, f) # {}
       /\ g \notin run.reindexed
       /\ RowsOf(chunks, g) # {}

(***************************************************************************)
(* C9.  No two rows of one source_path share a content_hash, in every      *)
(* state of the store; of the identical fragments of a file the first is   *)
(* the one stored, and a re-indexed file gets a row for each of its        *)
(* embedded fragments whatever the other files hold.                       *)
(***************************************************************************)
FirstIndexOf(content, file_chunks) ==
  CHOOSE i \in 1..Len(file_chunks) :
    /\ file_chunks[i][1] = content
    /\ \A j \in 1..(i - 1) : file_chunks[j][1] # content

C9_NoDuplicateHashInFile ==
  /\ \A r1, r2 \in chunks :
       (r1.source_path = r2.source_path /\ r1.content_hash = r2.content_hash)
         => r1 = r2
  /\ Completed =>
       \A f \in run.reindexed :
         /\ \A r \in RowsOf(chunks, f) :
              r.chunk_index =
                chunk_file(fs, f)[FirstIndexOf(r.content, chunk_file(fs, f))][2]
         /\ \A j \in Embedded(f) :
              \E r \in RowsOf(chunks, f) :
                r.content_hash = run.pending_chunks[j].content_hash

\* A file with a repeated fragment is stored, and the same content is
\* stored for another file too.
C9_Witness ==
  /\ Completed
  /\ \E f \in run.reindexed :
       /\ \E i, j \in 1..Len(chunk_file(fs, f)) :
            i # j /\ chunk_file(fs, f)[i][1] = chunk_file(fs, f)[j][1]
       /\ \E r1 \in RowsOf(chunks, f) :
            \E r2 \in chunks :
              r2.source_path # f /\ r2.content_hash = r1.content_hash

\* Two returned calls, the earlier first, with the same query and top_k.
SameCall(i, j) ==
  /\ i < j
  /\ calls[i].query = calls[j].query
  /\ calls[i].top_k = calls[j].top_k

\* What search would compute now, were nothing cached.
Fresh(query, top_k) ==
  LET answer == [txt |-> query, dim |-> EMBEDDING_DIM]
  IN IF index_exists
     THEN FaissResults(answer, top_k, chunks, fs, now)
     ELSE BruteForceResults(answer, top_k, chunks, fs, now)

\* Call j is served by the cache entry call i stored or hit: the store holds
\* chunks at both calls, the entry is younger than _CACHE_TTL at call j, and
\* no call from i to j dropped it for room.
ServedBySameEntry(i, j) ==
  /\ SameCall(i, j)
  /\ calls[i].stored
  /\ calls[j].stored
  /\ calls[j].time - calls[i].entryTime < _CACHE_TTL
  /\ \A k \in i..j :
       _cache_key(calls[i].query, calls[i].top_k) \notin calls[k].evicted

(***************************************************************************)
(* C10.  Two search calls with the same query and the same top_k made less *)
(* than _CACHE_TTL apart return the same results in the same order.  As     *)
(* stated this fails: the age that counts is the cache entry's, not the    *)
(* earlier call's, and a call on an empty store returns [] without         *)
(* touching the cache.                                                     *)
(***************************************************************************)
C10_IdenticalWithinTTL ==
  \A i, j \in 1..Len(calls) :
    SameCall(i, j) /\ calls[j].time - calls[i].time < _CACHE_TTL
      => calls[j].results = calls[i].results

\* C10 as the code keeps it: two search calls with the same query and top_k
\* return the same results in the same order when the store holds chunks at
\* both calls, the second call is made less than _CACHE_TTL after the cache
\* entry the first call stored or hit was written, and that entry was not
\* dropped for room in between.
C10_IdenticalWithinEntryTTL ==
  \A i, j \in 1..Len(calls) :
    ServedBySameEntry(i, j) => calls[j].results = calls[i].results

\* The later of two such calls has just returned, at a later time than the
\* earlier, a non-empty list that a fresh computation would not give.
C10_Witness ==
  \E i, j \in 1..Len(calls) :
    /\ ServedBySameEntry(i, j)
    /\ j = Len(calls)
    /\ calls[j].time > calls[i].time
    /\ calls[j].results # <<>>
    /\ get_stats(chunks).total_chunks # 0
    /\ calls[j].results # Fresh(calls[j].query, calls[j].top_k)

\* The cache holds an entry for the call's key that is _CACHE_TTL old or older.
ExpiredFor(query, top_k) ==
  /\ InCache(cache, _cache_key(query, top_k))
  /\ now - cache[CacheAt(cache, _cache_key(query, top_k))].time >= _CACHE_TTL

\* The step returned what a fresh computation gives and left it in the cache
\* under the call's key with the time of the call.
Refreshed(query, top_k) ==
  LET ckey == _cache_key(query, top_k)
  IN /\ Len(calls') = Len(calls) + 1
     /\ calls'[Len(calls')].results = Fresh(query, top_k)
     /\ InCache(cache', ckey)
     /\ cache'[CacheAt(cache', ckey)] =
          [key |-> ckey, results |-> Fresh(query, top_k), time |-> now]

\* The step returned nothing and left no entry under the call's key.
RemovedAndRaised(query, top_k) ==
  /\ calls' = calls
  /\ searchLog' = searchLog
  /\ ~InCache(cache', _cache_key(query, top_k))

(***************************************************************************)
(* C11.  A search on a store that holds chunks, finding an entry for its   *)
(* key of age >= _CACHE_TTL, removes it, computes the results again and    *)
(* stores them as a fresh entry with the time of the call.  As stated this *)
(* fails: embed(query) comes after the removal and may raise, and then no  *)
(* entry is stored.                                                        *)
(***************************************************************************)
C11_ExpiredEntryReplaced ==
  [][\A query \in Queries, top_k \in TopKs :
       \A answer \in QueryEmbedAnswers(query) :
         /\ Search(query, top_k, answer)
         /\ get_stats(chunks).total_chunks # 0
         /\ ExpiredFor(query, top_k)
         => Refreshed(query, top_k)]_vars

\* C11 as the code keeps it: a search on a store that holds chunks, finding
\* an entry for its key of age >= _CACHE_TTL, removes it and never returns
\* it; if the call returns, it returns freshly computed results and has
\* stored them as a new entry with the time of the call; if it raises, no
\* entry is left under the key.
C11_ExpiredEntryReplacedIfReturned ==
  [][\A query \in Queries, top_k \in TopKs :
       \A answer \in QueryEmbedAnswers(query) :
         /\ Search(query, top_k, answer)
         /\ get_stats(chunks).total_chunks # 0
         /\ ExpiredFor(query, top_k)
         => Refreshed(query, top_k) \/ RemovedAndRaised(query, top_k)]_vars

\* A call has just returned results it stored at the time of the call, an
\* earlier call of the same key having been served by an entry that is
\* _CACHE_TTL old by now, and no search in between raised.
C11_Witness ==
  \E i, j \in 1..Len(calls) :
    /\ SameCall(i, j)
    /\ j = Len(calls)
    /\ searches = Len(calls)
    /\ calls[i].stored
    /\ calls[j].stored
    /\ calls[j].time - calls[i].entryTime >= _CACHE_TTL
    /\ calls[j].time = now
    /\ calls[j].entryTime = now
    /\ InCache(cache, _cache_key(calls[j].query, calls[j].top_k))
    /\ cache[CacheAt(cache, _cache_key(calls[j].query, calls[j].top_k))].time = now

(***************************************************************************)
(* A process late in its life: index_directory over DirC has stored the    *)
(* one chunk of FileT and built the snapshot, and searches for the same    *)
(* query with top_k = 3, 4, ... have filled the cache, or all but one      *)
(* place of it, in that order within the first second.                     *)
(***************************************************************************)
TopKsCache == { 1, 2, 3 }

FilledFiles == [ p \in Paths |-> IF p = FileT THEN File(<<"A">>, 100) ELSE Absent ]

FilledStore ==
  LET c == chunk_file(FilledFiles, FileT)[1]
  IN store_chunk({}, 1, c[1], c[3], c[2], [txt |-> c[1], dim |-> EMBEDDING_DIM],
                 md5(c[1]), FilledFiles[FileT].mtime)

InitCache ==
  /\ fs = FilledFiles
  /\ chunks = FilledStore
  /\ nextId = 2
  /\ indexFile = [exists |-> TRUE, rows |-> BuildVectors(get_embeddings_only(FilledStore))]
  /\ metaFile = [exists |-> TRUE, rows |-> BuildMetadata(get_embeddings_only(FilledStore))]
  /\ pc = "idle"
  /\ run = IdleRun
  /\ last = [outcome |-> "done", directory |-> DirC, fsChanged |-> FALSE]
  /\ runs = 1
  /\ now = 2
  /\ \E n \in { _CACHE_MAX - 1, _CACHE_MAX } :
       cache = [ i \in 1..n |->
                   [key |-> _cache_key("alpha", i + 2),
                    results |-> Fresh("alpha", i + 2), time |-> now] ]
  /\ searchLog = <<>>
  /\ calls = <<>>
  /\ searches = 0
  /\ candidates = <<>>
  /\ top = 1
  /\ reranked = None

NextCache ==
  \/ \E query \in Queries, top_k \in TopKsCache :
       \E answer \in QueryEmbedAnswers(query) : Search(query, top_k, answer)
  \/ \E d \in { _CACHE_TTL - 1, _CACHE_TTL } : Tick(d)

SpecCache == InitCache /\ [][NextCache]_vars

(***************************************************************************)
(* C12.  After every search call returns the query cache holds at most     *)
(* _CACHE_MAX entries.                                                     *)
(***************************************************************************)
C12_CacheWithinCapacity == Len(cache) <= _CACHE_MAX

\* The last call stored its results in a full cache and the oldest entry
\* made room for them.
C12_Witness ==
  /\ Len(cache) = _CACHE_MAX
  /\ calls # <<>>
  /\ calls[Len(calls)].evicted # {}
  /\ InCache(cache, _cache_key(calls[Len(calls)].query, calls[Len(calls)].top_k))

(***************************************************************************)
(* C13.  On an empty chunks table search returns an empty list at once and *)
(* without error: whatever the embedding service would answer, and even    *)
(* with a live entry for the key in the cache, the call returns [], and    *)
(* the cache and search_log stay as they were.                             *)
(***************************************************************************)
C13_EmptyStoreReturnsEmpty ==
  [][\A query \in Queries, top_k \in TopKs :
       \A answer \in QueryEmbedAnswers(query) :
         Search(query, top_k, answer) /\ chunks = {}
         => /\ Len(calls') = Len(calls) + 1
            /\ calls'[Len(calls')].results = <<>>
            /\ calls'[Len(calls')].query = query
            /\ calls'[Len(calls')].top_k = top_k
            /\ cache' = cache
            /\ searchLog' = searchLog]_vars

\* The last call returned [] on an empty store while the cache held a live,
\* non-empty entry for its key.
C13_Witness ==
  /\ chunks = {}
  /\ calls # <<>>
  /\ LET c == calls[Len(calls)]
         ckey == _cache_key(c.query, c.top_k)
     IN /\ c.results = <<>>
        /\ ~c.stored
        /\ c.time = now
        /\ InCache(cache, ckey)
        /\ now - cache[CacheAt(cache, ckey)].time < _CACHE_TTL
        /\ cache[CacheAt(cache, ckey)].results # <<>>

(***************************************************************************)
(* mmr_rerank on its own: a candidate list of chunks of the two files,     *)
(* in any order of score (the FAISS path adds the recency boost after the  *)
(* ranking and does not sort again), and a top_k.                          *)
(***************************************************************************)
Scores == { 800, 799, 790, 789, 730, 720 }
TopKsRerank == { 0, 1, 2, 3 }

Candidate(n, c) ==
  [id |-> n, content |-> Some([ctx |-> Stem(c.source), text |-> "A"]),
   source |-> c.source, chunk_index |-> n - 1, similarity |-> c.similarity]

CandidateLists ==
  UNION { { [ n \in 1..len |-> Candidate(n, l[n]) ] :
              l \in [1..len -> [source : Paths, similarity : Scores]] } :
          len \in 0..MaxCandidates }

InitRerank ==
  /\ fs = [ p \in Paths |-> Absent ]
  /\ chunks = {}
  /\ nextId = 1
  /\ indexFile = NoSnapshotFile
  /\ metaFile = NoSnapshotFile
  /\ pc = "idle"
  /\ run = IdleRun
  /\ last = NoRun
  /\ runs = 0
  /\ now = 2
  /\ cache = <<>>
  /\ searchLog = <<>>
  /\ calls = <<>>
  /\ searches = 0
  /\ candidates \in CandidateLists
  /\ top \in TopKsRerank
  /\ reranked = None

\* results = mmr_rerank(results, top_k)
Rerank ==
  /\ reranked = None
  /\ reranked' = Some(mmr_rerank(candidates, top))
  /\ UNCHANGED <<indexVars, searchVars, candidates, top>>

NextRerank == Rerank

SpecRerank == InitRerank /\ [][NextRerank]_vars

SourcesBefore(results, i) == { results[n].source : n \in 1..(i - 1) }

CountOf(results, source) ==
  Cardinality({ n \in 1..Len(results) : results[n].source = source })

(***************************************************************************)
(* C14.  In a list mmr_rerank returns, no result from a source already     *)
(* among the results before it stands ahead of a result, within 0.001 of   *)
(* its score, from a source not yet among them.  The code returns a        *)
(* candidate list no longer than top_k as it came.                         *)
(***************************************************************************)
C14_UnrepresentedSourceFirst ==
  reranked # None =>
    \A i, j \in 1..Len(reranked[1]) :
      LET r == reranked[1]
      IN ~ /\ i < j
           /\ r[i].similarity - r[j].similarity <= 1
           /\ r[j].similarity - r[i].similarity <= 1
           /\ r[i].source \in SourcesBefore(r, i)
           /\ r[j].source \notin SourcesBefore(r, i)

\* Three chunks of FileA ranked first to third, then one of FileT 0.01 below
\* the third, and top_k = 3.
C15_Case ==
  /\ Len(candidates) = 4
  /\ top = 3
  /\ \A n \in 1..3 : candidates[n].source = FileA
  /\ candidates[4].source = FileT
  /\ candidates[1].similarity >= candidates[2].similarity
  /\ candidates[2].similarity >= candidates[3].similarity
  /\ candidates[4].similarity = candidates[3].similarity - 10

(***************************************************************************)
(* C15.  From three chunks of one file ranked first to third and a chunk   *)
(* of another file ranked fourth, 0.01 below the third, mmr_rerank with    *)
(* top_k = 3 returns two chunks of the first file and the chunk of the     *)
(* other, whatever the scores.                                             *)
(***************************************************************************)
C15_TwoAndOne ==
  reranked # None /\ C15_Case =>
    /\ Len(reranked[1]) = 3
    /\ CountOf(reranked[1], FileA) = 2
    /\ CountOf(reranked[1], FileT) = 1

\* The case with the second chunk far enough above the third to be taken
\* before the chunk of the other file.
C15_Witness ==
  /\ reranked # None
  /\ C15_Case
  /\ candidates[2].similarity - candidates[3].similarity > 54
  /\ reranked[1][2].source = FileA
  /\ reranked[1][3].source = FileT

\* The cache holds an entry for the call's key younger than _CACHE_TTL.
LiveFor(query, top_k) ==
  /\ InCache(cache, _cache_key(query, top_k))
  /\ now - cache[CacheAt(cache, _cache_key(query, top_k))].time < _CACHE_TTL

\* embed(query) is reached: the store holds chunks and the cache does not
\* answer.
EmbedsQuery(query, top_k) == chunks # {} /\ ~LiveFor(query, top_k)

(***************************************************************************)
(* C16.  A search whose embed(query) fails returns no list and leaves the  *)
(* query cache and search_log as they were.  As stated this fails: the     *)
(* lookup before embed has already removed an expired entry for the key.   *)
(***************************************************************************)
C16_EmbedFailureChangesNothing ==
  [][\A query \in Queries, top_k \in TopKs :
       Search(query, top_k, None) /\ EmbedsQuery(query, top_k)
       => /\ calls' = calls
          /\ searchLog' = searchLog
          /\ cache' = cache]_vars

\* C16 as the code keeps it: a search whose embed(query) fails returns no
\* list, leaves search_log as it was, and leaves the query cache as it was
\* but for an expired entry under the call's key, which is gone.
C16_EmbedFailureRemovesOnlyExpired ==
  [][\A query \in Queries, top_k \in TopKs :
       Search(query, top_k, None) /\ EmbedsQuery(query, top_k)
       => /\ calls' = calls
          /\ searchLog' = searchLog
          /\ cache' = IF ExpiredFor(query, top_k)
                      THEN Without(cache, CacheAt(cache, _cache_key(query, top_k)))
                      ELSE cache]_vars

\* A search has raised on a store that holds chunks, after the last returned
\* call had left an entry that is expired by now, and the cache is empty.
C16_Witness ==
  /\ chunks # {}
  /\ searches > Len(calls)
  /\ calls # <<>>
  /\ calls[Len(calls)].stored
  /\ calls[Len(calls)].results # <<>>
  /\ now - calls[Len(calls)].entryTime >= _CACHE_TTL
  /\ cache = <<>>

\* The run embedded a batch in which some slot failed.
SomeEmbeddingFailed ==
  /\ run.pending_chunks # <<>>
  /\ Len(run.embeddings) = Len(run.pending_chunks)
  /\ \E j \in 1..Len(run.embeddings) : run.embeddings[j] = None

\* The store holds a row for a pending chunk exactly when its slot is filled.
StoredExactlyEmbedded ==
  \A j \in 1..Len(run.pending_chunks) :
    LET c == run.pending_chunks[j]
    IN (run.embeddings[j] # None)
         <=> \E r \in chunks : /\ r.source_path = c.source
                               /\ r.chunk_index = c.idx
                               /\ r.content = c.content

\* Both snapshot files hold what build_index makes of the store as it is; of
\* an empty store there may be no files at all.
SnapshotIsOfStore ==
  /\ indexFile.rows = BuildVectors(get_embeddings_only(chunks))
  /\ metaFile.rows = BuildMetadata(get_embeddings_only(chunks))
  /\ chunks # {} => indexFile.exists /\ metaFile.exists

(***************************************************************************)
(* C17.  An index_directory run in which the embedding of some pending     *)
(* chunk failed ends normally, has stored exactly the pending chunks whose *)
(* embedding did not fail, and has rebuilt the snapshot from the store.    *)
(* Runs whose stored vectors differ in length are left aside: build_index  *)
(* raises on those whether or not an embedding failed.  The code fails     *)
(* the claim when every embedding failed and the store is left empty:      *)
(* build_index then returns without writing and the snapshot of the        *)
(* earlier store stays.                                                    *)
(***************************************************************************)
C17_FailedEmbeddingsAbsorbed ==
  /\ pc = "ended"
  /\ SomeEmbeddingFailed
  /\ ~Ragged(get_embeddings_only(chunks))
  => /\ run.outcome = "done"
     /\ StoredExactlyEmbedded
     /\ SnapshotIsOfStore

\* The files for which the running index_directory has called store_chunk.
StoredInRun ==
  { run.pending_chunks[j].source :
      j \in { n \in 1..Len(run.embeddings) : n < run.k /\ run.embeddings[n] # None } }

\* The store loop of the run is over.
AllStoresDone ==
  /\ run.pending_chunks # <<>>
  /\ Len(run.embeddings) = Len(run.pending_chunks)
  /\ run.k > Len(run.pending_chunks)

(***************************************************************************)
(* C18.  Within an index_directory run every delete_source for a file      *)
(* comes before every store_chunk for it, and build_index is invoked only  *)
(* after the last store_chunk of the run: a step that deletes the rows of  *)
(* a file is taken before any of its chunks is stored, a step that writes  *)
(* a snapshot file is taken with the store loop over, and no row is        *)
(* stored once build_index has begun to write.                             *)
(***************************************************************************)
C18_DeleteStoreBuildOrder ==
  [][/\ \A f \in Paths :
          chunks' = delete_source(chunks, f) /\ chunks' # chunks
            => f \notin StoredInRun
     /\ (indexFile' # indexFile \/ metaFile' # metaFile) => AllStoresDone
     /\ pc = "metadata" => chunks' = chunks]_vars

\* A run has ended that deleted the stored rows of a file, stored two chunks
\* of it under new ids and then built the snapshot.
C18_Witness ==
  /\ pc = "ended"
  /\ run.outcome = "done"
  /\ \E f \in run.reindexed :
       /\ RowsOf(run.startChunks, f) # {}
       /\ Cardinality(Embedded(f)) >= 2
       /\ RowsOf(chunks, f) \cap RowsOf(run.startChunks, f) = {}
  /\ SnapshotIsOfStore
  /\ chunks # {}

(***************************************************************************)
(* The snapshot files are plain files in the repository directory, and     *)
(* another process may remove one while a search is under way.             *)
(***************************************************************************)
Artefacts == { "faiss.index", "faiss_metadata.json" }

\* search(query, top_k) with an artefact removed after index_exists() at
\* line 114 has answered True and before load_index looks at line 45:
\* load_index returns (None, None), faiss_search returns [] at line 59, and
\* search goes on at line 121 with no results.
SearchAsSnapshotGoes(query, top_k, answer, artefact) ==
  /\ searches < MaxSearches
  /\ chunks # {}
  /\ _cache_get(cache, _cache_key(query, top_k), now).value = None
  /\ answer # None
  /\ index_exists
  /\ searches' = searches + 1
  /\ IF artefact = "faiss.index"
     THEN indexFile' = NoSnapshotFile /\ metaFile' = metaFile
     ELSE metaFile' = NoSnapshotFile /\ indexFile' = indexFile
  /\ LET ckey == _cache_key(query, top_k)
         got == _cache_get(cache, ckey, now)
         results == mmr_rerank(<<>>, top_k)
     IN /\ cache' = _cache_set(got.cache, ckey, results, now)
        /\ searchLog' = Append(searchLog, LogRow(query, results))
        /\ calls' = Append(calls,
                     Returned(query, top_k, results, now,
                              Evicted(got.cache, ckey, results, now)))
  /\ UNCHANGED <<fs, chunks, nextId, pc, run, last, runs, now, rerankVars>>

NextSnapshotLoss ==
  \/ NextSearch
  \/ \E query \in Queries, top_k \in TopKs, artefact \in Artefacts :
       \E answer \in QueryEmbedAnswers(query) :
         SearchAsSnapshotGoes(query, top_k, answer, artefact)

SpecSnapshotLoss == Init /\ [][NextSnapshotLoss]_vars

(***************************************************************************)
(* C19.  A search that embeds its query and cannot load the snapshot - an  *)
(* artefact is missing when it looks, or goes between the existence check  *)
(* and the load - returns what the brute-force scan of the store gives.    *)
(* The code falls back only when index_exists() says no: when the artefact *)
(* goes after that, it returns an empty list.                              *)
(***************************************************************************)
C19_FallsBackToBruteForce ==
  [][\A query \in Queries, top_k \in TopKs :
       \A answer \in QueryEmbedAnswers(query) \ {None} :
         /\ EmbedsQuery(query, top_k)
         /\ \/ Search(query, top_k, answer) /\ ~index_exists
            \/ \E artefact \in Artefacts :
                 SearchAsSnapshotGoes(query, top_k, answer, artefact)
         => /\ Len(calls') = Len(calls) + 1
            /\ calls'[Len(calls')].results =
                 BruteForceResults(answer[1], top_k, chunks, fs, now)]_vars

(***************************************************************************)
(* C20.  In every state of the store all rows of one source_path carry the *)
(* same file_mtime, so that get_file_mtime has one answer whichever row it *)
(* reads.                                                                  *)
(***************************************************************************)
C20_OneMtimePerSource ==
  \A p \in Paths :
    /\ \A r1, r2 \in RowsOf(chunks, p) : r1.file_mtime = r2.file_mtime
    /\ Cardinality(get_file_mtime(chunks, p)) = 1

\* After an interrupted run and a change of the file, a re-run has replaced
\* the rows the interrupted run left by two rows with the file's new mtime.
C20_Witness ==
  /\ run.prev.outcome \in {"killed", "killed before build_index"}
  /\ \E p \in Paths :
       /\ Cardinality(RowsOf(chunks, p)) >= 2
       /\ \A r \in RowsOf(chunks, p) : r.file_mtime = fs[p].mtime
       /\ \E r \in RowsOf(run.startChunks, p) : r.file_mtime # fs[p].mtime

(***************************************************************************)
(* C21.  An index_directory run whose pending list is empty returns        *)
(* without rebuilding: no step of it writes either snapshot file, so both  *)
(* are after the run what they were before it, even when the run deleted   *)
(* rows from the store.                                                    *)
(***************************************************************************)
C21_NothingPendingNothingRebuilt ==
  [][(indexFile' # indexFile \/ metaFile' # metaFile)
       => pc \in {"build", "metadata"} /\ run.pending_chunks # <<>>]_vars

\* A run with nothing pending has ended after deleting rows, and the snapshot
\* on disk still lists a row that is gone.
C21_Witness ==
  /\ pc = "ended"
  /\ run.outcome = "noop"
  /\ run.pending_chunks = <<>>
  /\ run.startChunks \ chunks # {}
  /\ indexFile.exists
  /\ metaFile.exists
  /\ MetaIds \ StoreIds # {}

(***************************************************************************)
(* C22.  For every candidate list and every top_k >= 0 mmr_rerank returns  *)
(* min(top_k, number of candidates) results, each of them one of the       *)
(* candidates and none of them twice.  The code returns the first          *)
(* candidate when top_k is 0 and there are candidates.                     *)
(***************************************************************************)
C22_ReturnsMinTopKCandidates ==
  reranked # None =>
    LET r == reranked[1]
    IN /\ Len(r) = Min(top, Len(candidates))
       /\ \A n \in 1..Len(r) : \E m \in 1..Len(candidates) : r[n] = candidates[m]
       /\ \A n, m \in 1..Len(r) : r[n].id = r[m].id => n = m

\* The same for top_k >= 1 only.
C22_ForPositiveTopK == top >= 1 => C22_ReturnsMinTopKCandidates

\* The recency-weighted scores of the candidates of a call that computes its
\* results: of the rows faiss_search yields on the snapshot path (a row whose
\* id the store lacks keeps its raw score), of all rows on the brute-force
\* path.
WeightedScores(query_embedding, top_k) ==
  IF index_exists
  THEN LET found == faiss_search(query_embedding, top_k)
       IN { IF \E x \in chunks : x.id = found[n][1]
            THEN recency_weight(found[n][4],
                                (CHOOSE x \in chunks : x.id = found[n][1]).source_path,
                                fs, now)
            ELSE found[n][4] : n \in 1..Len(found) }
  ELSE { recency_weight(cosine_similarity(query_embedding,
                                          _unpack_embedding(x.embedding)),
                        x.source_path, fs, now) : x \in chunks }

\* The first result of the call that returns in this step has the highest
\* of the candidates' weighted scores.
FirstIsBest(query_embedding, top_k) ==
  /\ calls'[Len(calls')].results # <<>>
  /\ \A w \in WeightedScores(query_embedding, top_k) :
       calls'[Len(calls')].results[1].similarity >= w

(***************************************************************************)
(* C23.  The first result of a search that computes and returns results is *)
(* a                                                                       *)
(* candidate with the highest recency-weighted score among the candidates  *)
(* of the call, on the snapshot path and on the brute-force path.  On the  *)
(* snapshot path the code weights the candidates in the order of their raw *)
(* scores and does not sort again before mmr_rerank takes the first.       *)
(***************************************************************************)
C23_FirstResultIsBestWeighted ==
  [][\A query \in Queries, top_k \in TopKs :
       \A answer \in QueryEmbedAnswers(query) \ {None} :
         /\ Search(query, top_k, answer)
         /\ EmbedsQuery(query, top_k)
         /\ Len(calls') = Len(calls) + 1
         /\ WeightedScores(answer[1], top_k) # {}
         => FirstIsBest(answer[1], top_k)]_vars

\* The same on the brute-force path only.
C23_OnBruteForcePath ==
  [][\A query \in Queries, top_k \in TopKs :
       \A answer \in QueryEmbedAnswers(query) \ {None} :
         /\ Search(query, top_k, answer)
         /\ EmbedsQuery(query, top_k)
         /\ ~index_exists
         /\ Len(calls') = Len(calls) + 1
         => FirstIsBest(answer[1], top_k)]_vars

CacheKeys(c) == { c[i].key : i \in 1..Len(c) }

\* When the key was last inserted or hit: the place among the returned calls
\* of the last one for the key, or, for a key no call has used, its place in
\* the cache the process started with, counted below zero.
LastUse(key) ==
  LET uses == { i \in 1..Len(calls) :
                  _cache_key(calls[i].query, calls[i].top_k) = key }
  IN IF uses # {}
     THEN CHOOSE i \in uses : \A j \in uses : j <= i
     ELSE (CHOOSE i \in 1.._CACHE_MAX : key = _cache_key("alpha", i + 2))
            - _CACHE_MAX - 1

\* The key in the cache whose last use is the oldest.
LeastRecentlyUsed ==
  CHOOSE key \in CacheKeys(cache) :
    \A other \in CacheKeys(cache) : LastUse(key) <= LastUse(other)

(***************************************************************************)
(* C24.  A search that inserts its results under a new key into a cache    *)
(* holding _CACHE_MAX entries evicts exactly one entry, the least recently *)
(* used one (by insertion or hit), and never the entry it inserts.         *)
(***************************************************************************)
C24_EvictsLeastRecentlyUsed ==
  [][\A query \in Queries, top_k \in TopKsCache :
       \A answer \in QueryEmbedAnswers(query) \ {None} :
         /\ Search(query, top_k, answer)
         /\ EmbedsQuery(query, top_k)
         /\ Len(calls') = Len(calls) + 1
         /\ Len(cache) = _CACHE_MAX
         /\ ~InCache(cache, _cache_key(query, top_k))
         => /\ Len(cache') = _CACHE_MAX
            /\ CacheKeys(cache') =
                 (CacheKeys(cache) \ {LeastRecentlyUsed})
                   \cup {_cache_key(query, top_k)}
            /\ calls'[Len(calls')].evicted = {LeastRecentlyUsed}]_vars

\* The oldest entry of the full cache was hit, and the next call, inserting
\* under a new key, evicted the second oldest and left the one hit.
C24_Witness ==
  /\ Len(calls) >= 2
  /\ calls[1].top_k = 3
  /\ calls[1].entryTime = 2
  /\ calls[2].top_k = 1
  /\ calls[2].evicted = {_cache_key("alpha", 4)}
  /\ InCache(cache, _cache_key("alpha", 3))
  /\ InCache(cache, _cache_key("alpha", 1))
  /\ Len(cache) = _CACHE_MAX

(***************************************************************************)
(* C25.  Whenever both snapshot files exist and no index_directory is in   *)
(* the middle of a run, the vector file and the metadata have the same     *)
(* length, and row i of the vector file is the normalised embedding of the *)
(* chunk metadata entry i names, for every chunk of them the store still   *)
(* holds.  build_index writes the two files one after the other, and a run *)
(* killed in between leaves the new vectors beside the old metadata.       *)
(***************************************************************************)
C25_VectorsMatchMetadata ==
  pc = "idle" /\ indexFile.exists /\ metaFile.exists =>
    /\ Len(indexFile.rows) = Len(metaFile.rows)
    /\ \A i \in 1..Len(metaFile.rows) :
         \A r \in chunks :
           r.id = metaFile.rows[i][1]
             => indexFile.rows[i] = normalize_L2(_unpack_embedding(r.embedding))

\* What the snapshot path of search makes of the snapshot and the store as
\* they are, for a query the embedding service answers.
SnapshotResults(top_k) ==
  FaissResults([txt |-> "alpha", dim |-> EMBEDDING_DIM], top_k, chunks, fs, now)

\* The metadata entry of the snapshot for the id.
MetaOf(id) ==
  metaFile.rows[CHOOSE i \in 1..Len(metaFile.rows) : metaFile.rows[i][1] = id]

\* Every result the snapshot path gives is the stored chunk of its id, under
\* the source and chunk_index the snapshot has for the id, or, the store
\* having no such id, the placeholder with the snapshot's source and
\* chunk_index.
StaleRehydrates ==
  index_exists =>
    \A top_k \in TopKs :
      \A res \in Range(SnapshotResults(top_k)) :
        LET m == MetaOf(res.id)
        IN /\ res.id \in MetaIds
           /\ res.source = m[2]
           /\ res.chunk_index = m[3]
           /\ IF res.id \in StoreIds
              THEN \E r \in chunks : /\ r.id = res.id
                                     /\ r.source_path = m[2]
                                     /\ r.chunk_index = m[3]
                                     /\ res.content = Some(r.content)
              ELSE res.content = None

(***************************************************************************)
(* C26.  Chunk ids are never reused and a row keeps its content,           *)
(* source_path and chunk_index as long as it keeps its id: every row       *)
(* stored gets an id above every id given before.  So, for a snapshot      *)
(* however stale, each id the snapshot path of search returns is either    *)
(* the stored chunk the snapshot entry was made from or absent from the    *)
(* store and shown as the placeholder with the snapshot's source and       *)
(* chunk_index.                                                            *)
(***************************************************************************)
C26_IdsStableAndNeverReused ==
  /\ []StaleRehydrates
  /\ [][/\ nextId' >= nextId
        /\ \A r \in chunks, r2 \in chunks' : r.id = r2.id => r = r2
        /\ \A r2 \in chunks' \ chunks : r2.id >= nextId /\ r2.id < nextId']_vars

\* A run is re-indexing a changed file while the snapshot of the earlier
\* store is on disk: the snapshot path gives a stored chunk for one id and
\* the placeholder for another, whose chunk is stored again under a new id.
C26_Witness ==
  /\ index_exists
  /\ \E top_k \in TopKs :
       /\ \E n \in 1..Len(SnapshotResults(top_k)) :
            SnapshotResults(top_k)[n].content # None
       /\ \E n \in 1..Len(SnapshotResults(top_k)) :
            LET res == SnapshotResults(top_k)[n]
            IN /\ res.content = None
               /\ \E r \in chunks : /\ r.source_path = res.source
                                     /\ r.chunk_index = res.chunk_index
                                     /\ r.id > res.id

\* The store holds a row for every deduplicated chunk of every valid file of
\* the run's directory.
AllChunksStored ==
  \A f \in Range(run.valid_files) :
    \A c \in Range(Dedup(chunk_file(fs, f), {}, fs[f].mtime)) :
      \E r \in chunks : /\ r.source_path = f
                        /\ r.chunk_index = c.idx
                        /\ r.content = c.content

\* A run with force=false over the directory of the run before it, nothing
\* on disk having changed since, in which the embedding service failed for
\* no text it was asked for.
LaterRunServiceUp ==
  /\ ~run.force
  /\ run.prev.outcome # "none"
  /\ run.prev.directory = run.directory
  /\ ~run.prev.fsChanged
  /\ \A j \in 1..Len(run.embeddings) : run.embeddings[j] # None

(***************************************************************************)
(* C27.  Under repeated index_directory runs with force=false over an      *)
(* unchanged directory, once the embedding service succeeds the store      *)
(* comes to hold a row for every deduplicated chunk of every valid file.   *)
(* Stated for one later run: a run after the first, with the service up,   *)
(* that returns normally leaves every such chunk stored.  The code skips a *)
(* file that has any row with the current mtime, so the run changes        *)
(* nothing, and neither does any run after it.                             *)
(***************************************************************************)
C27_LaterRunStoresMissingChunks ==
  Completed /\ LaterRunServiceUp => AllChunksStored

====
